---- MODULE Spec2Model ----
(***************************************************************************)
(* DataHive contribution verification: AIVerificationSystem                *)
(* (backend/app/ai_verification/services.py).                              *)
(*                                                                         *)
(* verify() fingerprints a document, consults a Redis cache keyed by       *)
(* "<wallet>:<sha256>", dispatches to the image or the text pipeline,      *)
(* runs a LangGraph workflow evaluator A -> evaluator B -> arbiter,        *)
(* applies the fairness adjustment and stores the normalized score.        *)
(*                                                                         *)
(* Python values are modelled as tagged records: a float is an exact       *)
(* rational [type |-> "float", n, d] in lowest terms (IEEE rounding is     *)
(* abstracted), None is [type |-> "NoneType"], a SimilarityScore carries   *)
(* a float score and a string reason.                                      *)
(***************************************************************************)
EXTENDS Integers, Sequences, FiniteSets, TLC

(***************************************************************************)
(* Bounds of the model.                                                    *)
(***************************************************************************)
\* number of verify / verify_csv_document calls started in one behaviour
MaxCalls == 2
\* number of clock steps (each of TTL / 2 seconds) in one behaviour
MaxTicks == 2

(***************************************************************************)
(* Program constants.                                                      *)
(***************************************************************************)
\* redis_pool.setex(cache_key, 86400, score)
TTL == 86400
\* random.uniform(0.95, 1.05), in hundredths
FairnessLow == 95
FairnessHigh == 105
\* adjusted_score = (raw_score * 1.30) / fairness_factor, in hundredths
Uplift == 130
\* normalized_score = min(adjusted_score, 100)
ScoreCap == 100

(***************************************************************************)
(* Python values.                                                          *)
(***************************************************************************)
RECURSIVE GCD(_, _)
GCD(a, b) == IF b = 0 THEN a ELSE GCD(b, a % b)

Abs(x) == IF x < 0 THEN -x ELSE x

\* the float n/d, kept in lowest terms with a positive denominator
Float(n, d) ==
    LET g == GCD(Abs(n), d)
    IN  [type |-> "float", n |-> n \div g, d |-> d \div g]

NoneVal == [type |-> "NoneType"]

IsNone(v) == v.type = "NoneType"

\* class SimilarityScore(BaseModel): score: float; reason: str
SimilarityScore(score, reason) ==
    [type |-> "SimilarityScore", score |-> score, reason |-> reason]

\* a test that only asks whether a value is there
Truthy_is_not_none(v) == v.type = "float"

\* bool(x) of a float or None: 0.0 and None are falsy
Truthy(v) == v.type = "float" /\ v.n # 0

\* bool(x) of a SimilarityScore | None state field: a pydantic model is truthy
Present(v) == v.type = "SimilarityScore"

Less(x, y) == x.n * y.d < y.n * x.d

Leq(x, y) == x.n * y.d <= y.n * x.d

\* min(a, b) of Python: the first argument unless the second is smaller
PyMin(a, b) == IF Less(b, a) THEN b ELSE a

(***************************************************************************)
(* Inputs: submitters and documents.                                       *)
(***************************************************************************)
Wallets == {"0xA", "0xB"}

\* file name extensions; "none" is a name without extension
Exts == {"pdf", "csv", "txt", "docx", "doc", "png", "bin", "none"}

\* byte contents: a zero-length file and a well-formed document
Bytes == {"empty", "good"}

Files == [ext : Exts, bytes : Bytes]

\* hashlib.sha256 over the whole byte stream: depends on the bytes only
hash_document(file) == <<"sha256", file.bytes>>

\* a cache key made of the fingerprint alone
cache_key_shared(wallet_address, file_hash) == <<"", file_hash>>

\* cache_key = f"{wallet_address}:{file_hash}"
cache_key(wallet_address, file_hash) == <<wallet_address, file_hash>>

Keys == {cache_key(w, hash_document(f)) : w \in Wallets, f \in Files}

\* mimetypes.guess_type(file_path)[0] as <<major, minor>>, <<>> for None
guess_type(file) ==
    CASE file.ext = "pdf"  -> <<"application", "pdf">>
      [] file.ext = "csv"  -> <<"text", "csv">>
      [] file.ext = "txt"  -> <<"text", "plain">>
      [] file.ext = "docx" -> <<"application", "vnd.openxmlformats-officedocument.wordprocessingml.document">>
      [] file.ext = "doc"  -> <<"application", "msword">>
      [] file.ext = "png"  -> <<"image", "png">>
      [] file.ext = "bin"  -> <<"application", "octet-stream">>
      [] OTHER             -> <<>>

\* mime_type and mime_type.startswith(prefix)
MimeStartsWith(mime, prefix) == Len(mime) > 0 /\ mime[1] = prefix

\* file_path.endswith(('.pdf', '.csv', '.txt', '.doc', '.docx'))
HasDocumentSuffix(file) == file.ext \in {"pdf", "csv", "txt", "doc", "docx"}

\* a dispatch that never takes the image branch
Dispatch_text_only(file) == "text"

\* the branch verify takes: "image" -> verify_image, otherwise verify_text_document
Dispatch(file) ==
    LET mime == guess_type(file)
    IN  IF MimeStartsWith(mime, "image") THEN "image"
        ELSE IF Len(mime) > 0 /\ (MimeStartsWith(mime, "text") \/ HasDocumentSuffix(file))
             THEN "text"
             ELSE "text"

(***************************************************************************)
(* Content extraction.  readable = FALSE is an I/O error while the file is *)
(* opened or read.                                                         *)
(***************************************************************************)
\* _extract_csv_content: any exception (unreadable, empty, unparseable) -> ""
extract_csv_content(file, readable) ==
    IF readable /\ file.bytes = "good" THEN "csv table" ELSE ""

\* _extract_doc_content: antiword output, "" on a non-zero exit or exception
extract_doc_content(file, readable) ==
    IF readable /\ file.bytes = "good" THEN "doc text" ELSE ""

\* an extraction that reads a file of any other suffix as plain text
extract_text_content_reads_any(file, readable) ==
    CASE file.ext = "pdf"  -> IF readable /\ file.bytes = "good" THEN "pdf text" ELSE ""
      [] file.ext = "csv"  -> extract_csv_content(file, readable)
      [] file.ext = "txt"  -> IF readable /\ file.bytes = "good" THEN "txt text" ELSE ""
      [] file.ext = "docx" -> IF readable /\ file.bytes = "good" THEN "docx text" ELSE ""
      [] file.ext = "doc"  -> extract_doc_content(file, readable)
      [] OTHER             -> IF readable /\ file.bytes = "good" THEN "raw text" ELSE ""

\* _extract_text_content: by file name suffix, "" on any exception and for
\* every other suffix
extract_text_content(file, readable) ==
    CASE file.ext = "pdf"  -> IF readable /\ file.bytes = "good" THEN "pdf text" ELSE ""
      [] file.ext = "csv"  -> extract_csv_content(file, readable)
      [] file.ext = "txt"  -> IF readable /\ file.bytes = "good" THEN "txt text" ELSE ""
      [] file.ext = "docx" -> IF readable /\ file.bytes = "good" THEN "docx text" ELSE ""
      [] file.ext = "doc"  -> extract_doc_content(file, readable)
      [] OTHER             -> ""

\* _encode_image: base64 of the bytes, "" on an exception; the base64 of a
\* zero-length file is the empty string
encode_image(file, readable) ==
    IF ~readable THEN ""
    ELSE IF file.bytes = "empty" THEN "" ELSE "b64(good)"

(***************************************************************************)
(* The evaluator capability: an LLM call behind get_long_context_llm,      *)
(* get_code_llm, get_fast_llm and get_vision_llm.  A call returns a value  *)
(* or raises.                                                              *)
(***************************************************************************)
\* scores an evaluator may answer with
EvalScores == {60}

\* scores the arbiter may answer with: one that never saturates under the
\* fairness adjustment and one that always does
ArbScores == {50, 81}

Returns(v) == [kind |-> "returns", value |-> v]

Raises == [kind |-> "raises", value |-> NoneVal]

\* chain.invoke of an evaluator (prompt | llm.with_structured_output(SimilarityScore)):
\* a SimilarityScore, no result, or an exception
EvaluatorChainOutcomes ==
    {Returns(SimilarityScore(Float(s, 1), "llm reason")) : s \in EvalScores}
        \cup {Returns(NoneVal), Raises}

\* chain.invoke of the arbiter: a SimilarityScore or an exception
ArbiterChainOutcomes ==
    {Returns(SimilarityScore(Float(s, 1), "llm verdict")) : s \in ArbScores}
        \cup {Raises}

\* response.content of a vision call, a string as the sequence of its
\* characters: a bare number with surrounding whitespace, or prose
ImageResponses == {<<" ", "9", "0", " ">>, <<"o", "k">>}

\* llm.invoke(messages) of an image evaluator: a message or an exception
VisionOutcomes ==
    {Returns(r) : r \in ImageResponses} \cup {[kind |-> "raises", value |-> <<>>]}

RECURSIVE lstrip(_)
lstrip(str) == IF str # <<>> /\ Head(str) = " " THEN lstrip(Tail(str)) ELSE str

RECURSIVE rstrip(_)
rstrip(str) ==
    IF str # <<>> /\ str[Len(str)] = " " THEN rstrip(SubSeq(str, 1, Len(str) - 1)) ELSE str

\* str.strip(): leading and trailing whitespace removed
strip(str) == rstrip(lstrip(str))

\* the value of a decimal digit, -1 for any other character
Digit(ch) ==
    CASE ch = "0" -> 0 [] ch = "1" -> 1 [] ch = "2" -> 2 [] ch = "3" -> 3 [] ch = "4" -> 4
      [] ch = "5" -> 5 [] ch = "6" -> 6 [] ch = "7" -> 7 [] ch = "8" -> 8 [] ch = "9" -> 9
      [] OTHER -> -1

AllDigits(str) == \A i \in 1 .. Len(str) : Digit(str[i]) >= 0

RECURSIVE digits_value(_)
digits_value(str) ==
    IF str = <<>> THEN 0
    ELSE digits_value(SubSeq(str, 1, Len(str) - 1)) * 10 + Digit(str[Len(str)])

RECURSIVE Pow10(_)
Pow10(k) == IF k = 0 THEN 1 ELSE 10 * Pow10(k - 1)

\* float(response.strip()): the value of [sign] digits [. digits] with at
\* least one digit, or None for a ValueError (exponents, inf, nan and digit
\* separators are left out)
float_of_str(response) ==
    LET t      == strip(response)
        signed == t # <<>> /\ t[1] \in {"-", "+"}
        body   == IF signed THEN Tail(t) ELSE t
        dots   == {i \in 1 .. Len(body) : body[i] = "."}
        dot    == IF dots = {} THEN Len(body) + 1 ELSE CHOOSE i \in dots : \A j \in dots : i <= j
        whole  == SubSeq(body, 1, dot - 1)
        frac   == SubSeq(body, dot + 1, Len(body))
        valid  == AllDigits(whole) /\ AllDigits(frac) /\ Len(whole) + Len(frac) > 0
        sign   == IF signed /\ t[1] = "-" THEN -1 ELSE 1
    IN  IF valid
        THEN Float(sign * (digits_value(whole) * Pow10(Len(frac)) + digits_value(frac)),
                   Pow10(Len(frac)))
        ELSE NoneVal

\* a parse step that reports an unparseable response as an evaluator failure
parse_image_response_as_failure(response) ==
    LET score == float_of_str(response)
    IN  IF IsNone(score)
        THEN SimilarityScore(Float(0, 1), "Evaluation failed in evaluator A")
        ELSE SimilarityScore(score, "Image analysis")

\* _parse_image_response
parse_image_response(response) ==
    LET score == float_of_str(response)
    IN  IF IsNone(score)
        THEN SimilarityScore(Float(0, 1), "Invalid response")
        ELSE SimilarityScore(score, "Image analysis")

\* the except branch of evaluator_a / evaluator_b, per workflow
EvaluatorFailure(wf, who) ==
    IF wf = "text"
    THEN SimilarityScore(Float(0, 1), "Evaluation failed")
    ELSE SimilarityScore(Float(0, 1), "Evaluation failed in evaluator " \o who)

\* an except branch of arbiter that leaves final unset
ArbiterFailureUnset == NoneVal

\* the except branch of arbiter, every workflow
ArbiterFailure == SimilarityScore(Float(0, 1), "Arbitration failed")

(***************************************************************************)
(* State.                                                                  *)
(***************************************************************************)
VARIABLES
    call,      \* per call slot: the position and the locals of one call
    cache,     \* the Redis store: cache_key -> value and expiry time
    now,       \* the clock, in seconds
    ncalls,    \* calls started so far
    lastRet,   \* per key: the score the latest completed verify returned,
               \* None once the key's entry has expired since
    norm,      \* the fairness normalizer on its own: inputs and result
    parse,     \* _parse_image_response on its own: response and result
    table,     \* _extract_csv_content on its own: the file and the result
    wrapper,   \* one LilypadLLMWrapper: its schema and its last invoke
    request,   \* one request to a verification endpoint
    training   \* one training request and its TrainingStatus record

\* the state of the verification service
core == <<call, cache, now, ncalls, lastRet, norm>>

\* the state of the components that are specified on their own
aux == <<parse, table, wrapper, request, training>>

vars == <<call, cache, now, ncalls, lastRet, norm, parse, table, wrapper, request, training>>

\* a component that takes no part in a specification
Unused == [pc |-> "unused"]

AuxUnused ==
    /\ parse = Unused
    /\ table = Unused
    /\ wrapper = Unused
    /\ request = Unused
    /\ training = Unused

\* call slots; slot 2 is used only where two calls overlap
Slots == {1, 2}

Zero == Float(0, 1)

\* redis-py sends repr(score) as bytes
Encode(score) == [type |-> "bytes", repr |-> <<score.n, score.d>>]

\* float(cached_score) of the bytes Redis returns
float_of_bytes(b) == Float(b.repr[1], b.repr[2])

NoEntry == [value |-> NoneVal, expires_at |-> 0]

\* redis_pool.get(cache_key): the stored bytes, None for a missing or
\* expired key
RedisGet(key) ==
    IF ~IsNone(cache[key].value) /\ now < cache[key].expires_at
    THEN cache[key].value
    ELSE NoneVal

\* check_cache, given the reply of redis_pool.get
check_cache(cached_score) ==
    IF ~IsNone(cached_score) THEN float_of_bytes(cached_score) ELSE NoneVal

IdleCall ==
    [pc |-> "idle", entry |-> "none", wallet |-> "", file |-> [ext |-> "none", bytes |-> "empty"],
     file_hash |-> <<>>, lookup |-> NoneVal, cached |-> NoneVal, prev |-> NoneVal,
     pipeline |-> <<>>, wf |-> "none", content |-> "", a |-> NoneVal, b |-> NoneVal, final |-> NoneVal,
     arb_input |-> NoneVal, stages |-> <<>>, llm_calls |-> 0,
     raw |-> NoneVal, f |-> 0, stores |-> 0, overwrote |-> FALSE, stored |-> NoneVal,
     ret |-> NoneVal, exc |-> ""]

Init ==
    /\ call = [c \in Slots |-> IdleCall]
    /\ cache = [k \in Keys |-> NoEntry]
    /\ now = 0
    /\ ncalls = 0
    /\ lastRet = [k \in Keys |-> NoneVal]
    /\ norm = [raw |-> Zero, f |-> FairnessLow, out |-> NoneVal]
    /\ AuxUnused

Key(c) == cache_key(call[c].wallet, call[c].file_hash)

Free(c) == call[c].pc \in {"idle", "done", "raised"}

(***************************************************************************)
(* verify: fingerprint and cache lookup.                                   *)
(***************************************************************************)
\* verify is entered and hash_document reads the file; an unreadable file
\* makes hash_document re-raise, which ends the call
Entered(w, file, readable) ==
    IF readable
    THEN [IdleCall EXCEPT !.pc = "check_cache", !.entry = "verify",
                          !.wallet = w, !.file = file,
                          !.file_hash = hash_document(file)]
    ELSE [IdleCall EXCEPT !.pc = "raised", !.entry = "verify",
                          !.wallet = w, !.file = file,
                          !.exc = "OSError"]

StartVerify(c) ==
    /\ Free(c)
    /\ ncalls < MaxCalls
    /\ \E w \in Wallets, file \in Files, readable \in BOOLEAN :
         call' = [call EXCEPT ![c] = Entered(w, file, readable)]
    /\ ncalls' = ncalls + 1
    /\ UNCHANGED <<cache, now, lastRet, norm, aux>>

\* if cached := await self.check_cache(...): return float(cached)
CheckCache(c) ==
    /\ call[c].pc = "check_cache"
    /\ \E redis_ok \in BOOLEAN :
         IF ~redis_ok
         THEN /\ call' = [call EXCEPT ![c].pc = "raised", ![c].exc = "RedisError"]
              /\ UNCHANGED lastRet
         ELSE LET reply  == RedisGet(Key(c))
                  cached == check_cache(reply)
              IN  IF Truthy(cached)
                  THEN /\ call' = [call EXCEPT ![c].pc = "done",
                                               ![c].lookup = reply,
                                               ![c].cached = cached,
                                               ![c].prev = lastRet[Key(c)],
                                               ![c].ret = cached]
                       /\ lastRet' = [lastRet EXCEPT ![Key(c)] = cached]
                  ELSE /\ call' = [call EXCEPT ![c].pc = "dispatch",
                                               ![c].lookup = reply,
                                               ![c].cached = cached,
                                               ![c].prev = lastRet[Key(c)]]
                       /\ UNCHANGED lastRet
    /\ UNCHANGED <<cache, now, ncalls, norm, aux>>

(***************************************************************************)
(* verify_image / verify_text_document up to workflow.invoke.              *)
(***************************************************************************)
\* workflow.set_entry_point(...)
entry_point == "node_a"

\* a graph whose edge out of evaluator A leads to the arbiter
workflow_edge_skips_b(node) ==
    CASE node = "node_a" -> "node_arbiter"
      [] node = "node_b" -> "node_arbiter"
      [] OTHER           -> "END"

\* a graph whose edge out of evaluator B leads to a node that does not exist
workflow_edge_dangling(node) ==
    CASE node = "node_a" -> "node_b"
      [] node = "node_b" -> "node_missing"
      [] OTHER           -> "END"

\* workflow.add_edge(...): evaluator A -> evaluator B -> arbiter -> END
workflow_edge(node) ==
    CASE node = "node_a" -> "node_b"
      [] node = "node_b" -> "node_arbiter"
      [] OTHER           -> "END"

\* the state a workflow is invoked with: both evaluator fields and final None
WorkflowStart(rec, wf, content) ==
    [rec EXCEPT !.pc = entry_point, !.wf = wf, !.content = content,
                !.a = NoneVal, !.b = NoneVal, !.final = NoneVal]

\* verify_image: encode, then invoke the image workflow
verify_image(rec, readable) ==
    WorkflowStart([rec EXCEPT !.pipeline = Append(@, "verify_image")],
                  "image", encode_image(rec.file, readable))

\* a verify_text_document whose extraction lets an I/O error escape
verify_text_document_unguarded(rec, readable) ==
    LET entered == [rec EXCEPT !.pipeline = Append(@, "verify_text_document")]
        content == extract_text_content(rec.file, readable)
    IN  IF ~readable
        THEN [entered EXCEPT !.pc = "raised", !.exc = "ExtractionError"]
        ELSE IF content = ""
        THEN [entered EXCEPT !.pc = "normalize", !.raw = Zero]
        ELSE WorkflowStart(entered, "text", content)

\* verify_text_document: extract; return 0.0 if not content, else invoke the
\* text workflow
verify_text_document(rec, readable) ==
    LET entered == [rec EXCEPT !.pipeline = Append(@, "verify_text_document")]
        content == extract_text_content(rec.file, readable)
    IN  IF content = ""
        THEN [entered EXCEPT !.pc = "normalize", !.raw = Zero]
        ELSE WorkflowStart(entered, "text", content)

\* the dispatch of verify on a miss and the start of the chosen pipeline
RunPipeline(c) ==
    /\ call[c].pc = "dispatch"
    /\ \E readable \in BOOLEAN :
         call' = [call EXCEPT ![c] =
            IF Dispatch(call[c].file) = "image"
            THEN verify_image(call[c], readable)
            ELSE verify_text_document(call[c], readable)]
    /\ UNCHANGED <<cache, now, ncalls, lastRet, norm, aux>>

\* verify_csv_document called on its own with a .csv file: extract; return
\* 0.0 if not csv_content, else invoke the csv workflow
StartCsvDocument(c) ==
    /\ Free(c)
    /\ ncalls < MaxCalls
    /\ \E file \in {x \in Files : x.ext = "csv"}, readable \in BOOLEAN :
         LET rec     == [IdleCall EXCEPT !.entry = "verify_csv_document", !.file = file]
             content == extract_csv_content(file, readable)
         IN  call' = [call EXCEPT ![c] =
                IF content = ""
                THEN [rec EXCEPT !.pc = "done", !.raw = Zero, !.ret = Zero]
                ELSE WorkflowStart(rec, "csv", content)]
    /\ ncalls' = ncalls + 1
    /\ UNCHANGED <<cache, now, lastRet, norm, aux>>

(***************************************************************************)
(* The LangGraph workflows: entry point evaluator A, edges A -> B,         *)
(* B -> arbiter, arbiter -> END.  The three workflows differ in prompts,   *)
(* in how an evaluator's answer is read and in the arbiter's guard.        *)
(***************************************************************************)
\* evaluator_a / evaluator_b of the text and csv workflows: the chain's
\* result as it is, the failure value on an exception
structured_evaluator(wf, who, outcome) ==
    IF outcome.kind = "raises" THEN EvaluatorFailure(wf, who) ELSE outcome.value

\* evaluator_a / evaluator_b of the image workflow: the parsed content of
\* the response, the failure value on an exception
image_evaluator(who, outcome) ==
    IF outcome.kind = "raises"
    THEN EvaluatorFailure("image", who)
    ELSE parse_image_response(outcome.value)

\* what the image evaluators can write, for every outcome of their call
ImageEvaluatorResults ==
    [who \in {"A", "B"} |-> {image_evaluator(who, o) : o \in VisionOutcomes}]

\* what an evaluator node can write into its state field
EvaluatorResults(wf, who) ==
    IF wf = "image"
    THEN ImageEvaluatorResults[who]
    ELSE {structured_evaluator(wf, who, o) : o \in EvaluatorChainOutcomes}

EvaluatorA(c) ==
    /\ call[c].pc = "node_a"
    /\ \E r \in EvaluatorResults(call[c].wf, "A") :
         call' = [call EXCEPT ![c].pc = workflow_edge("node_a"),
                              ![c].a = r,
                              ![c].stages = Append(@, "A"),
                              ![c].llm_calls = @ + 1]
    /\ UNCHANGED <<cache, now, ncalls, lastRet, norm, aux>>

EvaluatorB(c) ==
    /\ call[c].pc = "node_b"
    /\ \E r \in EvaluatorResults(call[c].wf, "B") :
         call' = [call EXCEPT ![c].pc = workflow_edge("node_b"),
                              ![c].b = r,
                              ![c].stages = Append(@, "B"),
                              ![c].llm_calls = @ + 1]
    /\ UNCHANGED <<cache, now, ncalls, lastRet, norm, aux>>

\* the values the arbiter puts into its prompt; None where the image and csv
\* arbiters raise ValueError for a missing evaluator result
ArbiterInput(wf, a, b) ==
    IF wf # "text" /\ (~Present(a) \/ ~Present(b))
    THEN NoneVal
    ELSE [type |-> "prompt",
          a_score  |-> IF Present(a) THEN a.score ELSE Zero,
          a_reason |-> IF Present(a) THEN a.reason ELSE "N/A",
          b_score  |-> IF Present(b) THEN b.score ELSE Zero,
          b_reason |-> IF Present(b) THEN b.reason ELSE "N/A"]

\* arbiter: the chain's result, the failure value on any exception
Arbiter(c) ==
    /\ call[c].pc = "node_arbiter"
    /\ LET input == ArbiterInput(call[c].wf, call[c].a, call[c].b)
       IN  IF IsNone(input)
           THEN call' = [call EXCEPT ![c].pc = workflow_edge("node_arbiter"),
                                     ![c].final = ArbiterFailure,
                                     ![c].stages = Append(@, "ARBITER")]
           ELSE \E o \in ArbiterChainOutcomes :
                  call' = [call EXCEPT ![c].pc = workflow_edge("node_arbiter"),
                                       ![c].final = IF o.kind = "raises"
                                                    THEN ArbiterFailure
                                                    ELSE o.value,
                                       ![c].arb_input = input,
                                       ![c].stages = Append(@, "ARBITER"),
                                       ![c].llm_calls = @ + 1]
    /\ UNCHANGED <<cache, now, ncalls, lastRet, norm, aux>>

\* return result["final"].score; the workflow state is dropped.  A final
\* that is None has no score: AttributeError leaves verify_* and verify
WorkflowReturn(c) ==
    /\ call[c].pc = "END"
    /\ LET score == call[c].final.score
       IN  call' = [call EXCEPT ![c] =
              IF ~Present(call[c].final)
              THEN [@ EXCEPT !.pc = "raised", !.exc = "AttributeError",
                             !.a = NoneVal, !.b = NoneVal, !.arb_input = NoneVal]
              ELSE IF call[c].entry = "verify"
              THEN [@ EXCEPT !.pc = "normalize", !.raw = score,
                             !.a = NoneVal, !.b = NoneVal, !.arb_input = NoneVal]
              ELSE [@ EXCEPT !.pc = "done", !.raw = score, !.ret = score,
                             !.a = NoneVal, !.b = NoneVal, !.arb_input = NoneVal]]
    /\ UNCHANGED <<cache, now, ncalls, lastRet, norm, aux>>

(***************************************************************************)
(* verify: fairness adjustment, cache store, return.                       *)
(***************************************************************************)
\* random.uniform(0.95, 1.05): both ends and the midpoint, in hundredths
FairnessFactors == {FairnessLow, (FairnessLow + FairnessHigh) \div 2, FairnessHigh}

\* the adjustment with the fairness factor multiplied in, not divided out
adjusted_score_times(raw_score, fairness_factor) ==
    Float(raw_score.n * Uplift * fairness_factor, raw_score.d * 100 * 100)

\* the adjustment with an uplift of 1.20
adjusted_score_low_uplift(raw_score, fairness_factor) ==
    Float(raw_score.n * (Uplift - 10), raw_score.d * fairness_factor)

\* adjusted_score = (raw_score * 1.30) / fairness_factor
adjusted_score(raw_score, fairness_factor) ==
    Float(raw_score.n * Uplift, raw_score.d * fairness_factor)

\* the normalization without the cap
normalized_score_uncapped(raw_score, fairness_factor) ==
    adjusted_score(raw_score, fairness_factor)

\* normalized_score = min(adjusted_score, 100)
normalized_score(raw_score, fairness_factor) ==
    PyMin(adjusted_score(raw_score, fairness_factor), Float(ScoreCap, 1))

\* a store that writes the whole part of the score
store_in_cache_truncating(key, score) ==
    [cache EXCEPT ![key] = [value |-> Encode(Float(score.n \div score.d, 1)),
                            expires_at |-> now + TTL]]

\* store_in_cache: redis_pool.setex(cache_key, 86400, score)
store_in_cache(key, score) ==
    [cache EXCEPT ![key] = [value |-> Encode(score), expires_at |-> now + TTL]]

\* the tail of verify on a miss; a failing setex raises out of verify
StoreAndReturn(c) ==
    /\ call[c].pc = "normalize"
    /\ \E fairness_factor \in FairnessFactors, redis_ok \in BOOLEAN :
         LET normalized == normalized_score(call[c].raw, fairness_factor)
         IN  IF redis_ok
             THEN /\ cache' = store_in_cache(Key(c), normalized)
                  /\ call' = [call EXCEPT ![c].pc = "done",
                                          ![c].f = fairness_factor,
                                          ![c].stores = @ + 1,
                                          ![c].overwrote = ~IsNone(RedisGet(Key(c))),
                                          ![c].stored = normalized,
                                          ![c].ret = normalized]
                  /\ lastRet' = [lastRet EXCEPT ![Key(c)] = normalized]
             ELSE /\ call' = [call EXCEPT ![c].pc = "raised",
                                          ![c].f = fairness_factor,
                                          ![c].exc = "RedisError"]
                  /\ UNCHANGED <<cache, lastRet>>
    /\ UNCHANGED <<now, ncalls, norm, aux>>

(***************************************************************************)
(* Time: the store drops an entry once its TTL has run out.                *)
(***************************************************************************)
Expired(k, t) == ~IsNone(cache[k].value) /\ cache[k].expires_at <= t

Tick ==
    /\ now < MaxTicks * (TTL \div 2)
    /\ now' = now + TTL \div 2
    /\ cache' = [k \in Keys |-> IF Expired(k, now') THEN NoEntry ELSE cache[k]]
    /\ lastRet' = [k \in Keys |-> IF Expired(k, now') THEN NoneVal ELSE lastRet[k]]
    /\ UNCHANGED <<call, ncalls, norm, aux>>

(***************************************************************************)
(* Specification: calls one after the other on slot 1.                     *)
(***************************************************************************)
Next ==
    \/ StartVerify(1)
    \/ CheckCache(1)
    \/ RunPipeline(1)
    \/ StartCsvDocument(1)
    \/ EvaluatorA(1)
    \/ EvaluatorB(1)
    \/ Arbiter(1)
    \/ WorkflowReturn(1)
    \/ StoreAndReturn(1)
    \/ Tick

Spec == Init /\ [][Next]_vars

(***************************************************************************)
(* Specification of one call running to its end.  The service has served   *)
(* all but one of the calls of a behaviour before, and the cache is empty  *)
(* or holds one entry stored at time 0.  Every step of a call is a call    *)
(* that returns or raises (a file read, a Redis command, an LLM call), so  *)
(* each step is taken once it is enabled; when a caller starts a call and  *)
(* when time passes is not constrained.                                    *)
(***************************************************************************)
\* scores an earlier call may have left in the cache
PriorScores == {Zero, Float(65, 1)}

InitLive ==
    /\ call = [c \in Slots |-> IdleCall]
    /\ now = 0
    /\ ncalls = MaxCalls - 1
    /\ norm = [raw |-> Zero, f |-> FairnessLow, out |-> NoneVal]
    /\ AuxUnused
    /\ \/ /\ cache = [k \in Keys |-> NoEntry]
          /\ lastRet = [k \in Keys |-> NoneVal]
       \/ \E k0 \in Keys, score \in PriorScores :
             /\ cache = [k \in Keys |-> IF k = k0
                                        THEN [value |-> Encode(score), expires_at |-> TTL]
                                        ELSE NoEntry]
             /\ lastRet = [k \in Keys |-> IF k = k0 THEN score ELSE NoneVal]

\* the steps of a call in progress
Progress ==
    \/ CheckCache(1)
    \/ RunPipeline(1)
    \/ EvaluatorA(1)
    \/ EvaluatorB(1)
    \/ Arbiter(1)
    \/ WorkflowReturn(1)
    \/ StoreAndReturn(1)

SpecLive == InitLive /\ [][Next]_vars /\ WF_vars(Progress)

(***************************************************************************)
(* Specification of overlapping calls.  verify is a coroutine: the event   *)
(* loop interleaves calls at every await (check_cache, to_thread,          *)
(* store_in_cache), and the pipelines run in worker threads.  One          *)
(* submitter sends the same bytes under several file names, on both call   *)
(* slots, so that every call uses the same cache key.  The clock stands    *)
(* still: every call falls into the TTL window of every entry.             *)
(***************************************************************************)
DupWallet == "0xA"

DupFiles == {f \in Files : f.bytes = "good" /\ f.ext \in {"txt", "png"}}

\* verify is entered with the submitter and the bytes of the duplicates
StartDuplicate(c) ==
    /\ Free(c)
    /\ ncalls < MaxCalls + 1
    /\ \E file \in DupFiles :
         call' = [call EXCEPT ![c] = Entered(DupWallet, file, TRUE)]
    /\ ncalls' = ncalls + 1
    /\ UNCHANGED <<cache, now, lastRet, norm, aux>>

NextConc ==
    \/ StartDuplicate(1)
    \/ StartDuplicate(2)
    \/ CheckCache(1)
    \/ CheckCache(2)
    \/ RunPipeline(1)
    \/ RunPipeline(2)
    \/ EvaluatorA(1)
    \/ EvaluatorA(2)
    \/ EvaluatorB(1)
    \/ EvaluatorB(2)
    \/ Arbiter(1)
    \/ Arbiter(2)
    \/ WorkflowReturn(1)
    \/ WorkflowReturn(2)
    \/ StoreAndReturn(1)
    \/ StoreAndReturn(2)

SpecConc == Init /\ [][NextConc]_vars

(***************************************************************************)
(* Specification of the fairness normalizer alone (verify, lines 495-497): *)
(* every raw score from below 0 to above 100 and every fairness factor of  *)
(* [0.95, 1.05] in hundredths.                                             *)
(***************************************************************************)
RawScores == -3 .. 103

AllFairnessFactors == FairnessLow .. FairnessHigh

InitNorm ==
    /\ call = [c \in Slots |-> IdleCall]
    /\ cache = [k \in Keys |-> NoEntry]
    /\ now = 0
    /\ ncalls = 0
    /\ lastRet = [k \in Keys |-> NoneVal]
    /\ \E r \in RawScores, ff \in AllFairnessFactors :
         norm = [raw |-> Float(r, 1), f |-> ff, out |-> NoneVal]
    /\ AuxUnused

ApplyNormalizer ==
    /\ IsNone(norm.out)
    /\ norm' = [norm EXCEPT !.out = normalized_score(norm.raw, norm.f)]
    /\ UNCHANGED <<call, cache, now, ncalls, lastRet, aux>>

NextNorm == ApplyNormalizer

SpecNorm == InitNorm /\ [][NextNorm]_vars

(***************************************************************************)
(* Specification of _parse_image_response alone (lines 888-896): every     *)
(* response of at most MaxLen characters over a small alphabet.            *)
(***************************************************************************)
\* the longest response
MaxLen == 3

\* a space, a sign, the decimal point, two digits and a letter
Chars == {" ", "-", ".", "0", "9", "x"}

Responses == UNION {[1 .. n -> Chars] : n \in 0 .. MaxLen}

InitParse ==
    /\ call = [c \in Slots |-> IdleCall]
    /\ cache = [k \in Keys |-> NoEntry]
    /\ now = 0
    /\ ncalls = 0
    /\ lastRet = [k \in Keys |-> NoneVal]
    /\ norm = [raw |-> Zero, f |-> FairnessLow, out |-> NoneVal]
    /\ \E r \in Responses : parse = [pc |-> "called", response |-> r, out |-> NoneVal]
    /\ table = Unused
    /\ wrapper = Unused
    /\ request = Unused
    /\ training = Unused

ParseImageResponse ==
    /\ parse.pc = "called"
    /\ parse' = [parse EXCEPT !.pc = "returned", !.out = parse_image_response(parse.response)]
    /\ UNCHANGED <<core, table, wrapper, request, training>>

NextParse == ParseImageResponse

SpecParse == InitParse /\ [][NextParse]_vars

(***************************************************************************)
(* Specification of _extract_csv_content alone (lines 844-861).  The file  *)
(* is given by what pd.read_csv makes of it: an exception, or a frame of   *)
(* two columns and at most MaxRows rows.  A cell is NaN (an empty field),  *)
(* a string (in an object column) or a number (in a numeric column).  A    *)
(* text is the sequence of its lines, a line the sequence of its fields;   *)
(* the padding that aligns the columns is left out.                        *)
(***************************************************************************)
\* the most rows of a frame
MaxRows == 2

NaN == [type |-> "nan"]

StrCell(chars) == [type |-> "str", chars |-> chars]

IntCell(v) == [type |-> "int", v |-> v]

Cells == {NaN, StrCell(<<" ", "a", " ">>), StrCell(<<"b">>), StrCell(<<" ">>), IntCell(7)}

Columns == {1, 2}

\* a column holds strings or numbers, not both
Frames ==
    {df \in UNION {[1 .. n -> [Columns -> Cells]] : n \in 0 .. MaxRows} :
        \A col \in Columns :
            ~\E i, j \in 1 .. Len(df) : df[i][col].type = "str" /\ df[j][col].type = "int"}

\* what pd.read_csv makes of the file: a frame, or an exception
ParserError == [ok |-> FALSE, df |-> <<>>]

ReadCsvOutcomes == {[ok |-> TRUE, df |-> df] : df \in Frames} \cup {ParserError}

\* a dropna that removes every row with an empty cell
dropna_any(df) ==
    LET keep(row) == \A col \in Columns : row[col] # NaN
    IN  SelectSeq(df, keep)

\* df.dropna(how='all'): the rows with at least one cell that is not NaN
dropna_all(df) ==
    LET keep(row) == \E col \in Columns : row[col] # NaN
    IN  SelectSeq(df, keep)

\* df.applymap(lambda x: x.strip() if isinstance(x, str) else x)
applymap_strip(df) ==
    [i \in 1 .. Len(df) |->
        [col \in Columns |->
            IF df[i][col].type = "str" THEN StrCell(strip(df[i][col].chars)) ELSE df[i][col]]]

\* how to_string shows one cell
cell_text(cell) ==
    CASE cell.type = "str" -> cell.chars
      [] cell.type = "int" -> <<"7">>
      [] OTHER             -> <<"N", "a", "N">>

HeaderLine == <<<<"c", "1">>, <<"c", "2">>>>

EmptyFrameLine == <<<<"E", "m", "p", "t", "y">>, <<"D", "a", "t", "a", "F", "r", "a", "m", "e">>>>

\* df.to_string(index=False): the header and one line per row, or the
\* "Empty DataFrame" text for a frame without rows
to_string(df) ==
    IF Len(df) = 0
    THEN <<EmptyFrameLine>>
    ELSE <<HeaderLine>> \o [i \in 1 .. Len(df) |-> <<cell_text(df[i][1]), cell_text(df[i][2])>>]

\* _extract_csv_content given the outcome of pd.read_csv: "" on an exception
csv_str(parsed) ==
    IF ~parsed.ok THEN <<>> ELSE to_string(applymap_strip(dropna_all(parsed.df)))

InitCsv ==
    /\ call = [c \in Slots |-> IdleCall]
    /\ cache = [k \in Keys |-> NoEntry]
    /\ now = 0
    /\ ncalls = 0
    /\ lastRet = [k \in Keys |-> NoneVal]
    /\ norm = [raw |-> Zero, f |-> FairnessLow, out |-> NoneVal]
    /\ parse = Unused
    /\ \E parsed \in ReadCsvOutcomes :
          table = [pc |-> "called", parsed |-> parsed, out |-> <<>>]
    /\ wrapper = Unused
    /\ request = Unused
    /\ training = Unused

ExtractCsvContent ==
    /\ table.pc = "called"
    /\ table' = [table EXCEPT !.pc = "returned", !.out = csv_str(table.parsed)]
    /\ UNCHANGED <<core, parse, wrapper, request, training>>

NextCsv == ExtractCsvContent

SpecCsv == InitCsv /\ [][NextCsv]_vars

(***************************************************************************)
(* Specification of one LilypadLLMWrapper (lilypad.py, lines 187-278):     *)
(* with_structured_output and invoke, called in any order.  An invoke gets *)
(* a prompt value (what a `prompt | llm` chain passes) or a plain list of  *)
(* messages (what the image evaluators pass), and the chat completion      *)
(* endpoint answers with a completion, with a body that has no choices, or *)
(* with an error status.                                                   *)
(***************************************************************************)
\* the most invoke calls on the wrapper
MaxInvokes == 3

\* the pydantic classes a caller may ask for
Schemas == {"Question", "Answer", "SimilarityScore"}

Inputs == {"ChatPromptValue", "list"}

Completions == {"60", "relevant"}

\* what client.chat_completion does: a completion, a body without choices,
\* or RuntimeError for a status other than 200
ChatOutcomes ==
    {[kind |-> "completion", content |-> c] : c \in Completions}
        \cup {[kind |-> "no_choices", content |-> ""], [kind |-> "http_error", content |-> ""]}

Returned_(type, content) == [kind |-> "returns", type |-> type, content |-> content]

Raised_(type) == [kind |-> "raises", type |-> type, content |-> ""]

\* a coercion that also knows SimilarityScore
coerce_to_schema_any(schema, llm_output, valid) ==
    IF schema = "None" THEN Raised_("ValueError")
    ELSE IF valid THEN Returned_(schema, llm_output) ELSE Raised_("ValidationError")

\* _coerce_to_schema: by the name of the schema class; valid tells whether
\* the class accepts the one field it is given
coerce_to_schema(schema, llm_output, valid) ==
    IF schema = "None" THEN Raised_("ValueError")
    ELSE IF schema \in {"Question", "Answer"}
         THEN IF valid THEN Returned_(schema, llm_output) ELSE Raised_("ValidationError")
         ELSE Raised_("OutputParserException")

\* invoke: input.to_messages(), the request, the message of the first
\* choice, then the coercion if a schema is set
invoke(schema, input, outcome, valid) ==
    IF input = "list" THEN Raised_("AttributeError")
    ELSE IF outcome.kind = "http_error" THEN Raised_("RuntimeError")
    ELSE IF outcome.kind = "no_choices" THEN Raised_("ValueError")
    ELSE IF schema # "None" THEN coerce_to_schema(schema, outcome.content, valid)
    ELSE Returned_("ChatMessage", outcome.content)

\* whether an invoke gets as far as the test of self.schema
ReachesSchemaTest(input, outcome) == input # "list" /\ outcome.kind = "completion"

NoInvoke == [input |-> "", outcome |-> [kind |-> "", content |-> ""], schema |-> "None",
             coerced |-> FALSE, result |-> Raised_("")]

InitWrapper ==
    /\ call = [c \in Slots |-> IdleCall]
    /\ cache = [k \in Keys |-> NoEntry]
    /\ now = 0
    /\ ncalls = 0
    /\ lastRet = [k \in Keys |-> NoneVal]
    /\ norm = [raw |-> Zero, f |-> FairnessLow, out |-> NoneVal]
    /\ parse = Unused
    /\ table = Unused
    /\ wrapper = [schema |-> "None", was_set |-> FALSE, invokes |-> 0, last |-> NoInvoke]
    /\ request = Unused
    /\ training = Unused

\* with_structured_output(schema): self.schema = schema; return self
WithStructuredOutput ==
    /\ \E schema \in Schemas :
         wrapper' = [wrapper EXCEPT !.schema = schema, !.was_set = TRUE]
    /\ UNCHANGED <<core, parse, table, request, training>>

Invoke ==
    /\ wrapper.invokes < MaxInvokes
    /\ \E input \in Inputs, outcome \in ChatOutcomes, valid \in BOOLEAN :
         wrapper' = [wrapper EXCEPT
            !.invokes = @ + 1,
            !.last = [input   |-> input,
                      outcome |-> outcome,
                      schema  |-> wrapper.schema,
                      coerced |-> ReachesSchemaTest(input, outcome) /\ wrapper.schema # "None",
                      result  |-> invoke(wrapper.schema, input, outcome, valid)]]
    /\ UNCHANGED <<core, parse, table, request, training>>

NextWrapper ==
    \/ WithStructuredOutput
    \/ Invoke

SpecWrapper == InitWrapper /\ [][NextWrapper]_vars

(***************************************************************************)
(* The verification endpoints of routes.py, one request at a time: the     *)
(* campaign lookup, the temporary file, the call of verify, the upload,    *)
(* the removal of the file and the response.  The request has the outer    *)
(* try/except of the three newer endpoints around all of its steps.        *)
(***************************************************************************)
\* the most requests served
MaxRequests == 2

Endpoints == {"verify", "verify-text", "verify-image", "verify-csv"}

\* the endpoints whose body is inside `try: ... except Exception`
Wrapped == {"verify-text", "verify-image", "verify-csv"}

\* the endpoints that hand verify to asyncio.to_thread
Threaded == {"verify-image", "verify-csv"}

\* what awaiting verify gives: the normalized score, a float
VerifyScores == {Zero, Float(78, 1), Float(ScoreCap, 1)}

NoEvaluation == [kind |-> "none", value |-> Zero]

\* asyncio.to_thread(verifier.verify, ...): the thread calls the async
\* function, which makes a coroutine object and runs none of its body
to_thread_verify == [kind |-> "coroutine", value |-> Zero]

AwaitedVerify(score) == [kind |-> "float", value |-> score]

\* evaluation.score: only a SimilarityScore has the attribute
HasScoreAttribute(evaluation) == evaluation.kind = "SimilarityScore"

NoRequest ==
    [pc |-> "idle", endpoint |-> "", campaign |-> FALSE, file |-> "absent",
     removes |-> 0, verify |-> "not_called", evaluation |-> NoEvaluation,
     uploaded |-> FALSE, verify_at_upload |-> "", status |-> 0, detail |-> "",
     score |-> NoneVal, served |-> 0]

\* an exception that leaves the body of the endpoint: the outer handler of
\* a wrapped endpoint answers 500 whatever was raised, the first endpoint
\* lets an HTTPException through and answers 500 for anything else
Fails(r, status, detail) ==
    IF r.endpoint \in Wrapped
    THEN [r EXCEPT !.pc = "done", !.status = 500, !.detail = "Failed to verify contribution"]
    ELSE [r EXCEPT !.pc = "done", !.status = status, !.detail = detail]

\* os.remove(temp_file_path)
os_remove(r) == [r EXCEPT !.file = "removed", !.removes = @ + 1]

\* a handler that raises without removing the file
inner_except_keeps_file(r) == Fails(r, 500, "Verification failed")

\* the handler around verify and the upload: os.remove, then HTTPException 500
inner_except(r) == Fails(os_remove(r), 500, "Verification failed")

InitRoutes ==
    /\ call = [c \in Slots |-> IdleCall]
    /\ cache = [k \in Keys |-> NoEntry]
    /\ now = 0
    /\ ncalls = 0
    /\ lastRet = [k \in Keys |-> NoneVal]
    /\ norm = [raw |-> Zero, f |-> FairnessLow, out |-> NoneVal]
    /\ parse = Unused
    /\ table = Unused
    /\ wrapper = Unused
    /\ request = NoRequest
    /\ training = Unused

RoutesUnchanged == UNCHANGED <<core, parse, table, wrapper, training>>

\* a request arrives at one of the endpoints; its campaign id names a
\* campaign or none
Receive ==
    /\ request.pc \in {"idle", "done"}
    /\ request.served < MaxRequests
    /\ \E endpoint \in Endpoints, exists \in BOOLEAN :
         request' = [NoRequest EXCEPT !.pc = "lookup", !.endpoint = endpoint,
                                      !.campaign = exists, !.served = request.served + 1]
    /\ RoutesUnchanged

\* db.query(Campaign)...first(); if not campaign: raise HTTPException(404)
LookupCampaign ==
    /\ request.pc = "lookup"
    /\ request' = IF request.campaign THEN [request EXCEPT !.pc = "write"]
                  ELSE Fails(request, 404, "Campaign not found")
    /\ RoutesUnchanged

\* open(temp_file_path, "wb") and copyfileobj: the file is written, or open
\* raises and makes no file, or the copy raises and leaves a part of it
WriteOutcomes == {"written", "open_raises", "copy_raises"}

WriteTempFile ==
    /\ request.pc = "write"
    /\ \E outcome \in WriteOutcomes :
         request' =
            IF outcome = "written" THEN [request EXCEPT !.pc = "verify", !.file = "present"]
            ELSE IF outcome = "open_raises" THEN Fails(request, 500, "Internal Server Error")
            ELSE Fails([request EXCEPT !.file = "partial"], 500, "Internal Server Error")
    /\ RoutesUnchanged

\* the call of verify: awaited by verify and verify-text, where it returns
\* its score or raises; handed to a thread by verify-image and verify-csv
CallVerify ==
    /\ request.pc = "verify"
    /\ \/ /\ request.endpoint \in Threaded
          /\ request' = [request EXCEPT !.pc = "upload", !.verify = "coroutine",
                                        !.evaluation = to_thread_verify]
       \/ /\ request.endpoint \notin Threaded
          /\ \E score \in VerifyScores :
               request' = [request EXCEPT
                   !.pc = IF request.endpoint = "verify" THEN "remove" ELSE "upload",
                   !.verify = "returned",
                   !.evaluation = AwaitedVerify(score)]
       \/ /\ request.endpoint \notin Threaded
          /\ request' = inner_except([request EXCEPT !.verify = "raised"])
    /\ RoutesUnchanged

\* storage.upload_file(bucket, temp_file_path)
Upload ==
    /\ request.pc = "upload"
    /\ \E stored \in BOOLEAN :
         request' = IF stored
                    THEN [request EXCEPT !.pc = "remove", !.uploaded = TRUE,
                                         !.verify_at_upload = request.verify]
                    ELSE inner_except([request EXCEPT !.verify_at_upload = request.verify])
    /\ RoutesUnchanged

\* os.remove(temp_file_path) after the inner try
RemoveTempFile ==
    /\ request.pc = "remove"
    /\ request' = [os_remove(request) EXCEPT !.pc = "respond"]
    /\ RoutesUnchanged

\* the return statement: the first endpoint returns what verify returned,
\* the others read evaluation.score and evaluation.reason
Respond ==
    /\ request.pc = "respond"
    /\ request' =
         IF request.endpoint = "verify" \/ HasScoreAttribute(request.evaluation)
         THEN [request EXCEPT !.pc = "done", !.status = 200,
                              !.score = request.evaluation.value]
         ELSE Fails(request, 500, "Internal Server Error")
    /\ RoutesUnchanged

NextRoutes ==
    \/ Receive
    \/ LookupCampaign
    \/ WriteTempFile
    \/ CallVerify
    \/ Upload
    \/ RemoveTempFile
    \/ Respond

SpecRoutes == InitRoutes /\ [][NextRoutes]_vars

(***************************************************************************)
(* The training job: start_training makes a TrainingStatus record and      *)
(* sends run_training_task, which a worker runs step by step.  Every step  *)
(* of the task is inside `try: ... except Exception`, so a step that       *)
(* raises ends the task through the handler.                               *)
(***************************************************************************)
\* the most training requests
MaxRecords == 2

Records == 1 .. MaxRecords

NoRecord ==
    [pc |-> "idle", status |-> "none", history |-> <<>>, steps |-> <<>>,
     status_at_download |-> "", upload_model |-> "", upload_info |-> "",
     raised |-> FALSE]

\* db.commit() of a status
Commit(t, status) == [t EXCEPT !.status = status, !.history = Append(@, status)]

\* a handler that re-raises and leaves the record as it is
on_exception_keeps_status(t) == [t EXCEPT !.pc = "done", !.raised = TRUE]

\* except Exception: rollback, the record set to "failed" and committed,
\* raise e
on_exception(t) == [Commit(t, "failed") EXCEPT !.pc = "done", !.raised = TRUE]

\* what akave.upload_file gives: a true value, a false value or an error
UploadOutcomes == {"ok", "falsy", "raises"}

\* if upload_model and upload_info: "completed", else "failed"
upload_status(upload_model, upload_info) ==
    IF upload_model = "ok" /\ upload_info = "ok" THEN "completed" ELSE "failed"

InitTraining ==
    /\ call = [c \in Slots |-> IdleCall]
    /\ cache = [k \in Keys |-> NoEntry]
    /\ now = 0
    /\ ncalls = 0
    /\ lastRet = [k \in Keys |-> NoneVal]
    /\ norm = [raw |-> Zero, f |-> FairnessLow, out |-> NoneVal]
    /\ parse = Unused
    /\ table = Unused
    /\ wrapper = Unused
    /\ request = Unused
    /\ training = [r \in Records |-> NoRecord]

TrainingUnchanged == UNCHANGED <<core, parse, table, wrapper, request>>

\* one step of the task on record r: it goes on to the next position or
\* raises into the handler
TaskStep(r, from, ok, to) ==
    /\ training[r].pc = from
    /\ training' = [training EXCEPT ![r] =
          IF ok THEN [training[r] EXCEPT !.pc = to, !.steps = Append(@, from)]
          ELSE on_exception([training[r] EXCEPT !.steps = Append(@, from)])]
    /\ TrainingUnchanged

\* start_training: 404 for an unknown campaign, else a record with the
\* status "pending" is committed and the task is sent
StartTraining(r) ==
    /\ training[r].pc = "idle"
    /\ \E exists \in BOOLEAN :
         training' = [training EXCEPT ![r] =
            IF exists THEN [Commit(training[r], "pending") EXCEPT !.pc = "queued"]
            ELSE [training[r] EXCEPT !.pc = "rejected"]]
    /\ TrainingUnchanged

\* the task finds its record, sets "running" and commits
SetRunning(r) ==
    /\ training[r].pc = "queued"
    /\ training' = [training EXCEPT ![r] = [Commit(training[r], "running") EXCEPT !.pc = "campaign"]]
    /\ TrainingUnchanged

\* the campaign is looked up by its id; none raises "Campaign not found"
FetchCampaign(r) == \E found \in BOOLEAN : TaskStep(r, "campaign", found, "list")

\* akave.list_files and the filter on ".csv"; no csv file raises
ListCsvFiles(r) == \E some \in BOOLEAN : TaskStep(r, "list", some, "download")

\* the files are downloaded, read and concatenated; nothing to
\* concatenate, or a file that does not parse, raises
DownloadAndMerge(r) ==
    /\ training[r].pc = "download"
    /\ \E merged \in BOOLEAN :
         training' = [training EXCEPT ![r] =
            LET t == [training[r] EXCEPT !.status_at_download = training[r].status,
                                         !.steps = Append(@, "download")]
            IN  IF merged THEN [t EXCEPT !.pc = "train"] ELSE on_exception(t)]
    /\ TrainingUnchanged

\* the target and feature columns are checked and the classifier is
\* fitted; a missing column or another training_type raises
Train(r) == \E fitted \in BOOLEAN : TaskStep(r, "train", fitted, "upload")

\* the model and its metadata are uploaded, the second only if the first
\* call returned; the status is set from the two results and committed
UploadArtifacts(r) ==
    /\ training[r].pc = "upload"
    /\ \E upload_model \in UploadOutcomes, upload_info \in UploadOutcomes :
         training' = [training EXCEPT ![r] =
            LET t == [training[r] EXCEPT !.steps = Append(@, "upload"),
                                         !.upload_model = upload_model]
            IN  IF upload_model = "raises" THEN on_exception(t)
                ELSE IF upload_info = "raises"
                     THEN on_exception([t EXCEPT !.upload_info = upload_info])
                     ELSE [Commit([t EXCEPT !.upload_info = upload_info],
                                  upload_status(upload_model, upload_info))
                              EXCEPT !.pc = "done"]]
    /\ TrainingUnchanged

NextTraining ==
    \E r \in Records :
        \/ StartTraining(r)
        \/ SetRunning(r)
        \/ FetchCampaign(r)
        \/ ListCsvFiles(r)
        \/ DownloadAndMerge(r)
        \/ Train(r)
        \/ UploadArtifacts(r)

\* a worker runs every task that was sent
SpecTraining == InitTraining /\ [][NextTraining]_vars /\ WF_vars(NextTraining)

(***************************************************************************)
(* Properties.                                                             *)
(***************************************************************************)
\* a verify call that has returned
Returned(c) == call[c].entry = "verify" /\ call[c].pc = "done"

\* a verify call that has returned after computing and storing a score
ReturnedMiss(c) == Returned(c) /\ call[c].stores = 1

\* C1: whenever verify finds an entry for its key in the cache, whatever the
\* stored score, it returns that score and runs neither dispatch, extraction,
\* an evaluator nor the arbiter, and does not write to the cache.
C1_HitShortCircuits ==
    \A c \in Slots :
        (call[c].entry = "verify" /\ ~IsNone(call[c].lookup)) =>
            /\ call[c].pc = "done"
            /\ call[c].ret = float_of_bytes(call[c].lookup)
            /\ call[c].wf = "none"
            /\ call[c].stages = <<>>
            /\ call[c].stores = 0

\* C2: a verify call that follows a completed call with the same submitter
\* and the same bytes, with no expiry of the entry in between, returns the
\* score the earlier call returned.
C2_SameScoreWithinTtl ==
    \A c \in Slots :
        (Returned(c) /\ ~IsNone(call[c].prev)) => call[c].ret = call[c].prev

\* C3: every value verify returns, on a hit and on a miss, is an Evaluation
\* with a score and a reason.
C3_ReturnsEvaluation ==
    \A c \in Slots : Returned(c) => call[c].ret.type = "SimilarityScore"

\* the diagnostic of the pipeline of a call: the arbiter's reason, or the
\* extraction diagnostic when no workflow ran
PipelineReason(c) ==
    IF Present(call[c].final) THEN call[c].final.reason
    ELSE "Text content extraction failed"

\* C4: on a miss the returned reason is a success sentinel when the final
\* score is non-zero and the pipeline's own failure reason when it is 0.
C4_ReasonOnMiss ==
    \A c \in Slots :
        ReturnedMiss(c) =>
            /\ call[c].ret.type = "SimilarityScore"
            /\ call[c].ret.score = call[c].stored
            /\ (~Truthy(call[c].stored) => call[c].ret.reason = PipelineReason(c))
            /\ (Truthy(call[c].stored) => call[c].ret.reason # PipelineReason(c))

InRange(x) == Leq(Zero, x) /\ Leq(x, Float(100, 1))

\* C5: on a miss with a raw score in [0,100], the score verify returns and
\* the score it writes to the cache are both in [0,100].
C5_FinalScoreInRange ==
    \A c \in Slots :
        (ReturnedMiss(c) /\ InRange(call[c].raw)) =>
            /\ InRange(call[c].ret)
            /\ InRange(call[c].stored)
            /\ ~IsNone(cache[Key(c)].value) => InRange(float_of_bytes(cache[Key(c)].value))

\* a saturating raw score has been normalized, stored and returned as 100
C5_Witness ==
    \E c \in Slots :
        /\ ReturnedMiss(c)
        /\ call[c].raw = Float(81, 1)
        /\ call[c].f = FairnessLow
        /\ call[c].ret = Float(100, 1)
        /\ cache[Key(c)].value = Encode(Float(100, 1))

\* the normalizer has been applied
Normalized == ~IsNone(norm.out)

\* C6: for every fairness factor of [0.95, 1.05], a raw score of at least
\* 100 * 1.05 / 1.3 normalizes to exactly 100, and a raw score of at most
\* 100 * 0.95 / 1.3 normalizes to less than 100 unless raw * 1.3 = 100 * f.
C6_SaturationBoundary ==
    Normalized =>
        /\ Leq(Float(100 * 105, 130), norm.raw) => norm.out = Float(100, 1)
        /\ Leq(norm.raw, Float(100 * 95, 130)) =>
              \/ Less(norm.out, Float(100, 1))
              \/ norm.raw.n * 130 = 100 * norm.f * norm.raw.d

\* the smallest whole raw score above the upper threshold, normalized under
\* the largest fairness factor
C6_Witness ==
    /\ Normalized
    /\ norm.raw = Float(81, 1)
    /\ norm.f = 105
    /\ norm.out = Float(100, 1)

\* the raw score of a call: the arbiter's score, 0 when extraction failed
ArbiterScore(c) == IF Present(call[c].final) THEN call[c].final.score ELSE Zero

\* C7: on a miss the final score is min(R * 1.30 / f, 100), R the arbiter's
\* score (0 on extraction failure) and f one factor of [0.95, 1.05]; R = 50
\* with f = 1.00 gives 65 and R = 0 gives 0.
C7_FinalScoreFormula ==
    \A c \in Slots :
        ReturnedMiss(c) =>
            LET R == ArbiterScore(c)
                F == call[c].f
                x == call[c].ret
            IN  /\ F \in 95 .. 105
                /\ IF R.n * 130 >= 100 * F * R.d
                   THEN x = Float(100, 1)
                   ELSE x.n * R.d * F = R.n * 130 * x.d
                /\ (R = Float(50, 1) /\ F = 100) => x = Float(65, 1)
                /\ R = Zero => x = Zero

\* the example of the claim: an arbiter score of 50 under a factor of 1.00
C7_Witness ==
    \E c \in Slots :
        /\ ReturnedMiss(c)
        /\ Present(call[c].final)
        /\ call[c].final.score = Float(50, 1)
        /\ call[c].f = 100
        /\ call[c].ret = Float(65, 1)

\* a workflow has been invoked in the call and its arbiter node is over
PastArbiter(c) ==
    call[c].wf # "none" /\ call[c].pc \notin {"node_a", "node_b", "node_arbiter"}

C9_StageOrder ==
    \A c \in Slots :
        /\ call[c].wf = "none" => call[c].stages = <<>>
        /\ call[c].pc = "node_a" => call[c].stages = <<>>
        /\ call[c].pc = "node_b" => call[c].stages = <<"A">>
        /\ call[c].pc = "node_arbiter" => call[c].stages = <<"A", "B">>
        /\ PastArbiter(c) => call[c].stages = <<"A", "B", "ARBITER">>
        /\ call[c].llm_calls <= Len(call[c].stages)
        /\ (call[c].pc = "END" /\ ~IsNone(call[c].arb_input)) =>
              /\ Present(call[c].a) =>
                    /\ call[c].arb_input.a_score = call[c].a.score
                    /\ call[c].arb_input.a_reason = call[c].a.reason
              /\ Present(call[c].b) =>
                    /\ call[c].arb_input.b_score = call[c].b.score
                    /\ call[c].arb_input.b_reason = call[c].b.reason

\* a run of the image workflow is over in which A and B answered differently
\* and the arbiter was asked with both answers
C9_Witness ==
    \E c \in Slots :
        /\ call[c].wf = "image"
        /\ call[c].pc = "END"
        /\ call[c].stages = <<"A", "B", "ARBITER">>
        /\ call[c].llm_calls = 3
        /\ call[c].arb_input.a_reason = "Image analysis"
        /\ call[c].arb_input.b_reason = "Evaluation failed in evaluator B"

\* C10: in every category, an empty extracted payload ends the pipeline with
\* score 0 and no evaluator A, evaluator B or arbiter call.
C10_EmptyPayloadShortCircuits ==
    \A c \in Slots :
        call[c].content = "" =>
            /\ call[c].wf = "none"
            /\ call[c].stages = <<>>
            /\ call[c].llm_calls = 0
            /\ call[c].pc = "normalize" => call[c].raw = Zero

\* a verify call that missed the cache and has left the dispatch
Dispatched(c) ==
    call[c].entry = "verify" /\ call[c].pc \in {"node_a", "node_b", "node_arbiter", "END", "normalize", "done", "raised"}
                             /\ call[c].pipeline # <<>>

\* the MIME type of the document is None or one verify has no branch for
UnknownType(file) ==
    LET mime == guess_type(file)
    IN  ~(Len(mime) > 0 /\ mime[1] = "image")
        /\ ~(Len(mime) > 0 /\ (mime[1] = "text" \/ file.ext \in {"pdf", "csv", "txt", "doc", "docx"}))

\* C11: a document of an undetected or unsupported MIME type is not rejected
\* by the dispatch: it goes to the text pipeline, its extracted content is
\* empty, no evaluator is called, and verify stores and returns a score of 0.
C11_FailOpenDispatch ==
    \A c \in Slots :
        (call[c].entry = "verify" /\ UnknownType(call[c].file)) =>
            /\ call[c].exc \in {"", "OSError", "RedisError"}
            /\ call[c].pc # "dispatch" => call[c].pipeline \in {<<>>, <<"verify_text_document">>}
            /\ Dispatched(c) =>
                  /\ call[c].pipeline = <<"verify_text_document">>
                  /\ call[c].content = ""
                  /\ call[c].wf = "none"
                  /\ call[c].llm_calls = 0
                  /\ call[c].pc = "normalize" => call[c].raw = Zero
                  /\ call[c].pc = "done" =>
                        /\ call[c].ret = Zero
                        /\ call[c].stores = 1
                        /\ call[c].stored = Zero
                        /\ cache[Key(c)].value \in {NoneVal, Encode(Zero)}

\* a .bin document with content has been scored 0 and the 0 is in the cache
C11_Witness ==
    \E c \in Slots :
        /\ Returned(c)
        /\ call[c].file = [ext |-> "bin", bytes |-> "good"]
        /\ call[c].pipeline = <<"verify_text_document">>
        /\ call[c].ret = Zero
        /\ cache[Key(c)].value = Encode(Zero)

\* C12: on a miss verify runs verify_image if and only if the MIME type
\* starts with "image"; otherwise it runs verify_text_document; one pipeline
\* function runs per miss, none before the dispatch and none on a hit.
C12_DispatchRule ==
    \A c \in Slots :
        call[c].entry = "verify" =>
            LET mime  == guess_type(call[c].file)
                image == Len(mime) > 0 /\ mime[1] = "image"
            IN  /\ Len(call[c].pipeline) <= 1
                /\ call[c].pc \in {"idle", "check_cache", "dispatch"} => call[c].pipeline = <<>>
                /\ Truthy(call[c].cached) => call[c].pipeline = <<>>
                /\ call[c].pc \in {"node_a", "node_b", "node_arbiter", "END", "normalize"} =>
                      Len(call[c].pipeline) = 1
                /\ call[c].stores = 1 => Len(call[c].pipeline) = 1
                /\ call[c].pipeline # <<>> =>
                      /\ image <=> call[c].pipeline = <<"verify_image">>
                      /\ ~image <=> call[c].pipeline = <<"verify_text_document">>
                      /\ image <=> call[c].wf = "image"
                      /\ ~image => call[c].wf \in {"none", "text"}

\* a .png missed the cache, went through verify_image and nothing else, and
\* its score has been stored
C12_Witness ==
    \E c \in Slots :
        /\ ReturnedMiss(c)
        /\ call[c].file.ext = "png"
        /\ call[c].pipeline = <<"verify_image">>
        /\ call[c].wf = "image"

\* the entries of the cache that belong to a submitter and a fingerprint
OwnKeys(wallet, file_hash) == {k \in Keys : k[1] = wallet /\ k[2] = file_hash}

\* C13: a verify call reads and writes only the cache entry of its own
\* submitter: every entry that changes while no time passes is the caller's,
\* a reply to the lookup is the value stored under the caller's own key, and
\* a call of a submitter none of whose calls for these bytes has completed
\* since the last expiry misses, whatever other submitters have stored.
C13_PerSubmitterScope ==
    [][\A c \in Slots :
          /\ \A k \in Keys :
                (cache'[k] # cache[k] /\ now' = now /\ call'[c] # call[c]) =>
                    k \in OwnKeys(call'[c].wallet, call'[c].file_hash)
          /\ (call[c].pc = "check_cache" /\ call'[c].pc \in {"dispatch", "done"}) =>
                /\ IsNone(call'[c].prev) => IsNone(call'[c].lookup)
                /\ ~IsNone(call'[c].lookup) =>
                      \E k \in OwnKeys(call[c].wallet, call[c].file_hash) :
                          call'[c].lookup = cache[k].value
                /\ \A k \in Keys \ OwnKeys(call[c].wallet, call[c].file_hash) :
                      cache'[k] = cache[k]
      ]_vars

\* submitter 0xB has missed the cache for bytes whose score submitter 0xA
\* holds in the cache
C13_Witness ==
    \E c \in Slots :
        /\ call[c].entry = "verify"
        /\ call[c].wallet = "0xB"
        /\ call[c].pc = "dispatch"
        /\ IsNone(call[c].lookup)
        /\ \E k \in OwnKeys("0xA", call[c].file_hash) :
              /\ ~IsNone(cache[k].value)
              /\ now < cache[k].expires_at
              /\ Truthy(float_of_bytes(cache[k].value))

\* call d missed the cache and stored its score over the entry that a call
\* overlapping it had stored in the meantime
LostRace(d) ==
    /\ ReturnedMiss(d)
    /\ IsNone(call[d].lookup)
    /\ call[d].overwrote

\* C14: when two overlapping calls for one key have both missed and both
\* stored, the cache holds the score stored last, and a call that looks the
\* key up after both have finished, within the TTL, returns that score.
C14_LastWriteServed ==
    [][\A c \in Slots, d \in Slots :
          ( /\ c # d
            /\ LostRace(d)
            /\ cache[Key(d)].value = Encode(call[d].stored)
            /\ call[c].pc = "check_cache"
            /\ Key(c) = Key(d)
            /\ call'[c].pc \notin {"check_cache", "raised"} ) =>
              /\ call'[c].pc = "done"
              /\ call'[c].ret = call[d].stored
      ]_vars

EvaluatorAnswers(wf, who) ==
    IF wf = "image"
    THEN {image_evaluator(who, o) : o \in {x \in VisionOutcomes : x.kind = "returns"}}
    ELSE {structured_evaluator(wf, who, o) : o \in {x \in EvaluatorChainOutcomes : x.kind = "returns"}}

\* what the arbiter node writes when its call returned
ArbiterAnswers == {o.value : o \in {x \in ArbiterChainOutcomes : x.kind = "returns"}}

\* C16: in the text, image and csv workflows an evaluator field holds what
\* the evaluator's call returned or, after an exception, exactly
\* {score: 0, reason: "Evaluation failed"}; final holds what the arbiter's
\* call returned or, after an exception, exactly
\* {score: 0, reason: "Arbitration failed"}; a node changes its own field only.
C16_DegradeValues ==
    [][\A c \in Slots :
          /\ call'[c].pc \in {"node_b", "node_arbiter", "END"} =>
                call'[c].a \in EvaluatorAnswers(call'[c].wf, "A")
                                 \cup {SimilarityScore(Zero, "Evaluation failed")}
          /\ call'[c].pc \in {"node_arbiter", "END"} =>
                call'[c].b \in EvaluatorAnswers(call'[c].wf, "B")
                                 \cup {SimilarityScore(Zero, "Evaluation failed")}
          /\ call'[c].pc = "END" =>
                call'[c].final \in ArbiterAnswers
                                     \cup {SimilarityScore(Zero, "Arbitration failed")}
          /\ (call[c].pc = "node_a" /\ call'[c].pc = "node_b") =>
                /\ call'[c].b = call[c].b
                /\ call'[c].final = call[c].final
                /\ call'[c].content = call[c].content
          /\ (call[c].pc = "node_b" /\ call'[c].pc = "node_arbiter") =>
                /\ call'[c].a = call[c].a
                /\ call'[c].final = call[c].final
                /\ call'[c].content = call[c].content
          /\ (call[c].pc = "node_arbiter" /\ call'[c].pc = "END") =>
                /\ call'[c].a = call[c].a
                /\ call'[c].b = call[c].b
                /\ call'[c].content = call[c].content
      ]_vars

\* C17: under sequential calls a verify call never stores over an entry
\* that has not expired, and every entry in the cache expires 86400 seconds
\* after it was stored.
C17_WriteOncePerWindow ==
    /\ \A c \in Slots :
          (call[c].entry = "verify" /\ call[c].stores = 1) => ~call[c].overwrote
    /\ \A k \in Keys :
          ~IsNone(cache[k].value) =>
              /\ now < cache[k].expires_at
              /\ cache[k].expires_at <= now + 86400

\* C18: a document with a .csv name that verify scores through a workflow
\* is scored by the csv workflow.
C18_CsvUsesCsvWorkflow ==
    \A c \in Slots :
        (call[c].entry = "verify" /\ call[c].file.ext = "csv" /\ call[c].wf # "none") =>
            call[c].wf = "csv"

\* C19: two calls of one submitter have the same fingerprint exactly when
\* their documents have the same bytes, whatever the file names; and when a
\* call has returned a score that is in the cache, a call of the same
\* submitter with the same bytes under another file name that then looks the
\* key up, within the TTL, hits and returns that score.
C19_KeyIgnoresFileName ==
    [][\A c \in Slots, d \in Slots :
          /\ (call[c].file_hash # <<>> /\ call[d].file_hash # <<>>) =>
                (call[c].file_hash = call[d].file_hash
                    <=> call[c].file.bytes = call[d].file.bytes)
          /\ ( /\ c # d
               /\ Returned(d)
               /\ cache[Key(d)].value = Encode(call[d].ret)
               /\ call[c].pc = "check_cache"
               /\ call[c].wallet = call[d].wallet
               /\ call[c].file.bytes = call[d].file.bytes
               /\ call[c].file.ext # call[d].file.ext
               /\ call'[c].pc \notin {"check_cache", "raised"} ) =>
                 /\ call'[c].pc = "done"
                 /\ call'[c].ret = call[d].ret
      ]_vars

\* a call in progress
Running(c) == call[c].pc \notin {"idle", "done", "raised"}

\* a call that has returned a float score or raised a file or Redis error
Finished(c) ==
    \/ call[c].pc = "done" /\ call[c].ret.type = "float"
    \/ call[c].pc = "raised" /\ call[c].exc \in {"OSError", "RedisError"}

C21_OrchestratorOrder ==
    \A c \in Slots :
        call[c].entry = "verify" =>
            /\ call[c].stores <= 1
            /\ call[c].pc = "check_cache" =>
                  /\ call[c].file_hash = hash_document(call[c].file)
                  /\ IsNone(call[c].lookup) /\ call[c].pipeline = <<>>
                  /\ IsNone(call[c].raw) /\ call[c].f = 0 /\ call[c].stores = 0
            /\ call[c].pc = "dispatch" =>
                  /\ call[c].file_hash = hash_document(call[c].file)
                  /\ ~Truthy(call[c].cached) /\ call[c].pipeline = <<>>
                  /\ IsNone(call[c].raw) /\ call[c].f = 0 /\ call[c].stores = 0
            /\ call[c].pc \in {"node_a", "node_b", "node_arbiter", "END"} =>
                  /\ ~Truthy(call[c].cached) /\ Len(call[c].pipeline) = 1
                  /\ IsNone(call[c].raw) /\ call[c].f = 0 /\ call[c].stores = 0
            /\ call[c].pc = "normalize" =>
                  /\ ~Truthy(call[c].cached) /\ Len(call[c].pipeline) = 1
                  /\ ~IsNone(call[c].raw) /\ call[c].f = 0 /\ call[c].stores = 0
                  /\ IsNone(call[c].ret)
            /\ (call[c].pc = "done" /\ ~Truthy(call[c].cached)) =>
                  /\ Len(call[c].pipeline) = 1
                  /\ ~IsNone(call[c].raw)
                  /\ call[c].f \in FairnessLow .. FairnessHigh
                  /\ call[c].stores = 1
                  /\ call[c].stored = call[c].ret
                  /\ cache[Key(c)].value \in {NoneVal, Encode(call[c].ret)}
            /\ call[c].stores = 1 => call[c].pc = "done"

\* the arbiter of a text workflow failed, and verify has stored and returned
\* the degraded score 0
C21_Witness ==
    \E c \in Slots :
        /\ ReturnedMiss(c)
        /\ call[c].wf = "text"
        /\ call[c].final = ArbiterFailure
        /\ call[c].ret = Zero
        /\ cache[Key(c)] = [value |-> Encode(Zero), expires_at |-> now + TTL]

InvalidResponse == SimilarityScore(Zero, "Invalid response")

\* C22: for every response _parse_image_response returns an Evaluation and
\* never raises: the number the trimmed response denotes with the reason
\* "Image analysis", or score 0 with the reason "Invalid response"; an image
\* evaluator passes that Evaluation on, and the arbiter gets it as an input,
\* not as an evaluator failure.
C22_ParseImageResponse ==
    parse.pc = "returned" =>
        LET r   == parse.response
            out == parse.out
        IN  /\ out.type = "SimilarityScore"
            /\ out.reason \in {"Image analysis", "Invalid response"}
            /\ out.reason = "Invalid response" => out.score = Zero
            /\ (r # <<>> /\ \A i \in 1 .. Len(r) : r[i] \in {"0", "9"}) =>
                  out = SimilarityScore(Float(digits_value(r), 1), "Image analysis")
            /\ (\E i \in 1 .. Len(r) : r[i] = "x") => out = InvalidResponse
            /\ (\A i \in 1 .. Len(r) : r[i] = " ") => out = InvalidResponse
            /\ (\E i \in 1 .. Len(r) - 2 : r[i] # " " /\ r[i + 1] = " " /\ r[i + 2] # " ") =>
                  out = InvalidResponse
            /\ r = <<"9", ".", "9">> => out.score = Float(99, 10)
            /\ r = <<"-", "9">> => out.score = Float(-9, 1)
            /\ r = <<" ", "9", " ">> => out.score = Float(9, 1)
            /\ r \in {<<".">>, <<"-">>, <<"-", ".">>, <<"9", "-">>, <<".", ".">>} =>
                  out = InvalidResponse
            /\ parse_image_response(<<" ">> \o r) = out
            /\ parse_image_response(r \o <<" ">>) = out
            /\ \A who \in {"A", "B"} :
                  /\ image_evaluator(who, Returns(r)) = out
                  /\ out # EvaluatorFailure("image", who)
            /\ ArbiterInput("image", out, out).a_score = out.score
            /\ ArbiterInput("image", out, out).b_reason = out.reason

\* a response that is not a number has been parsed into score 0 with the
\* reason "Invalid response"
C22_Witness ==
    /\ parse.pc = "returned"
    /\ parse.response = <<"9", "x">>
    /\ parse.out = InvalidResponse

\* the rows of a frame that have a cell that is not empty
NonEmptyRows(df) == {i \in 1 .. Len(df) : \E col \in Columns : df[i][col].type # "nan"}

\* the n-th smallest element of a set of numbers
Nth(S, n) == CHOOSE k \in S : Cardinality({j \in S : j <= k}) = n

\* C23: _extract_csv_content returns "" when the file cannot be parsed;
\* otherwise the text has one line for each row that is not entirely empty,
\* in the order of the frame, and none for an entirely empty row; in a line
\* a string cell appears without leading and trailing whitespace and every
\* other cell as it is.
C23_CsvExtraction ==
    table.pc = "returned" =>
        LET df   == table.parsed.df
            out  == table.out
        IN  IF ~table.parsed.ok
            THEN out = <<>>
            ELSE LET kept == NonEmptyRows(df)
                     body == IF kept = {} THEN <<>> ELSE Tail(out)
                 IN  /\ out # <<>>
                     /\ kept = {} => out = <<EmptyFrameLine>>
                     /\ kept # {} => Head(out) = HeaderLine
                     /\ Len(body) = Cardinality(kept)
                     /\ \A n \in 1 .. Len(body) :
                           LET row == df[Nth(kept, n)]
                           IN  \A col \in Columns :
                                 /\ row[col].type = "str" =>
                                       /\ body[n][col] = strip(row[col].chars)
                                       /\ body[n][col] # <<>> =>
                                             /\ Head(body[n][col]) # " "
                                             /\ body[n][col][Len(body[n][col])] # " "
                                 /\ row[col].type = "int" => body[n][col] = <<"7">>
                                 /\ row[col].type = "nan" => body[n][col] = <<"N", "a", "N">>
                     /\ \A n \in 1 .. Len(body) :
                           body[n] # <<<<"N", "a", "N">>, <<"N", "a", "N">>>>

\* an entirely empty row between two rows has been dropped and a padded
\* string cell has been trimmed
C23_Witness ==
    /\ table.pc = "returned"
    /\ table.parsed.ok
    /\ table.parsed.df = <<[c \in Columns |-> NaN],
                           [c \in Columns |-> IF c = 1 THEN StrCell(<<" ", "a", " ">>) ELSE IntCell(7)]>>
    /\ table.out = <<HeaderLine, <<<<"a">>, <<"7">>>>>>

\* a verify call whose lookup found a score of exactly 0 in the cache
FoundZero(c) == call[c].entry = "verify" /\ call[c].lookup = Encode(Zero)

\* C24: a verify call that finds a score of exactly 0 in the cache does not
\* return it as a hit: it goes on to the dispatch, runs a pipeline and, when
\* it returns, has stored its own score, which need not be 0.
C24_ZeroIsNeverAHit ==
    \A c \in Slots :
        FoundZero(c) =>
            /\ call[c].cached = Zero
            /\ call[c].pc \in {"dispatch", "node_a", "node_b", "node_arbiter", "END",
                               "normalize", "done", "raised"}
            /\ call[c].pc \notin {"dispatch", "raised"} => Len(call[c].pipeline) = 1
            /\ call[c].pc = "done" =>
                  /\ call[c].stores = 1
                  /\ call[c].ret = normalized_score(call[c].raw, call[c].f)
                  /\ call[c].stored = call[c].ret

\* a call found 0 in the cache, less than 24 hours after it was stored, ran
\* the text workflow and has returned 65 and stored it over the 0
C24_Witness ==
    \E c \in Slots :
        /\ FoundZero(c)
        /\ call[c].pc = "done"
        /\ call[c].wf = "text"
        /\ call[c].overwrote
        /\ call[c].ret = Float(65, 1)
        /\ cache[Key(c)].value = Encode(Float(65, 1))

\* what chain.invoke of `prompt | wrapper` gives an evaluator node for a
\* result of the wrapper's invoke
AsChainOutcome(result) ==
    IF result.kind = "raises" THEN Raises
    ELSE Returns(SimilarityScore(Float(60, 1), result.content))

\* C25: an invoke on a wrapper whose schema is S returns an S instance only
\* if S is named "Question" or "Answer"; for any other schema it raises,
\* with OutputParserException once the endpoint has sent a completion; so a
\* text or csv evaluator whose chain ends in a wrapper with the schema
\* SimilarityScore writes its failure value.
C25_CoercionByClassName ==
    wrapper.invokes > 0 =>
        LET l == wrapper.last
            r == l.result
        IN  l.schema # "None" =>
              /\ r.kind = "returns" =>
                    /\ l.schema \in {"Question", "Answer"}
                    /\ r.type = l.schema
                    /\ r.content = l.outcome.content
              /\ l.schema \notin {"Question", "Answer"} =>
                    /\ r.kind = "raises"
                    /\ (l.input = "ChatPromptValue" /\ l.outcome.kind = "completion") =>
                          r.type = "OutputParserException"
              /\ l.schema = "SimilarityScore" =>
                    /\ AsChainOutcome(r) = Raises
                    /\ \A wf \in {"text", "csv"}, who \in {"A", "B"} :
                          structured_evaluator(wf, who, AsChainOutcome(r)) = EvaluatorFailure(wf, who)

\* the endpoint sent the completion "60" to a wrapper with the schema
\* SimilarityScore, and invoke raised OutputParserException
C25_Witness ==
    /\ wrapper.invokes > 0
    /\ wrapper.last.schema = "SimilarityScore"
    /\ wrapper.last.input = "ChatPromptValue"
    /\ wrapper.last.outcome = [kind |-> "completion", content |-> "60"]
    /\ wrapper.last.result = Raised_("OutputParserException")

\* the last invoke ran on a wrapper whose schema had been set
InvokedWithSchema == wrapper.invokes > 0 /\ wrapper.last.schema # "None"

\* C26: once with_structured_output was called the schema is never None
\* again, and every later invoke that the endpoint answers with a
\* completion, a plain message list as input included, goes through the
\* schema coercion.
C26_EveryLaterInvokeCoerced ==
    /\ wrapper.was_set <=> wrapper.schema # "None"
    /\ (InvokedWithSchema /\ wrapper.last.outcome.kind = "completion") =>
          /\ wrapper.last.coerced
          /\ wrapper.last.result.type
                \in {wrapper.last.schema, "ValidationError", "OutputParserException"}

\* the request has been answered
Answered == request.pc = "done"

C28_UnknownCampaignIs404 ==
    (Answered /\ ~request.campaign) =>
        /\ request.status = 404
        /\ request.detail = "Campaign not found"
        /\ request.file = "absent"
        /\ request.verify = "not_called"
        /\ ~request.uploaded

\* C29: on verify-image and verify-csv, for an existing campaign, verify
\* has returned its result when the file is uploaded, and a response
\* carries that result's score as verification_score.
C29_VerifyBeforeUpload ==
    (request.endpoint \in Threaded /\ request.campaign) =>
        /\ request.uploaded => request.verify_at_upload = "returned"
        /\ (Answered /\ request.uploaded) =>
              /\ request.status = 200
              /\ request.score = request.evaluation.value

\* the committed statuses a record may have gone through
Lifecycles ==
    {<<>>, <<"pending">>, <<"pending", "running">>,
     <<"pending", "running", "completed">>, <<"pending", "running", "failed">>}

TaskEnded(r) == training[r].pc = "done"

LifecycleHolds(r) ==
    LET t == training[r]
    IN  /\ t.history \in Lifecycles
        /\ t.steps # <<>> => Len(t.history) >= 2
        /\ t.status_at_download \in {"", "running"}
        /\ TaskEnded(r) => t.status \in {"completed", "failed"}
        /\ t.status = "completed" =>
              /\ t.upload_model = "ok"
              /\ t.upload_info = "ok"
              /\ ~t.raised
        /\ t.raised => TaskEnded(r) /\ t.status = "failed"

====
